---- MODULE Spec2Model ----
(***************************************************************************)
(* A model of the course search system (rag_search_system.py, app.py):     *)
(* the CourseSearchSystem object (vector_store, qa_chain), the persisted   *)
(* Chroma collection at "data/vectorstore", the build operations           *)
(* (load_course_data, create_vector_store, setup_qa_chain) and the query   *)
(* operations (search_courses, similar_courses, _is_course_related) as     *)
(* served by concurrent request threads.                                   *)
(*                                                                         *)
(* Text (queries, course fields, documents, chunks) is a sequence of        *)
(* one-character strings; the messages the code returns or raises are      *)
(* TLA+ strings.                                                           *)
(***************************************************************************)
EXTENDS Integers, Sequences, FiniteSets, TLC

VARIABLES
    env_key,        \* os.getenv("GEMINI_API_KEY") is set and non-empty
    vector_store,   \* self.vector_store: None or the id of a Chroma object
    qa_chain,       \* self.qa_chain: None or a chain bound to a retriever
    stores,         \* the Chroma objects of this process: id -> chunks held
    disk,           \* the collection persisted at "data/vectorstore"
    persisted,      \* ids of the Chroma objects whose persist() completed
    nbuilds,        \* Chroma objects created so far (the next object's id)
    last_setup,     \* outcome of the last setup_qa_chain call
    main,           \* the main thread: its position in create_vector_store
    th,             \* request threads: position and locals of each call
    arg,            \* input of the pure function under check
    ret             \* its result

vars == <<env_key, vector_store, qa_chain, stores, disk, persisted, nbuilds,
          last_setup, main, th, arg, ret>>

\* Python's None, by the kind of value it stands in for: a text, a reference
\* to a Chroma object (ids start at 1), an object.
None == "None"
NoStore == 0
NoneObj == [is_none |-> TRUE]

----------------------------------------------------------------------------
(* Bounds of the model.                                                    *)

NumThreads == 2     \* concurrent request threads
MaxBuilds == 2      \* create_vector_store calls over the life of the index
MaxPieces == 3      \* pieces concatenated into a classifier query
MaxRecords == 2     \* records in a course data file

Threads == 1..NumThreads

----------------------------------------------------------------------------
(* Characters and str.lower().                                             *)

\* A character is a one-character string; a code point above U+00FF, and the
\* grave accent U+0060, is written "U+" and its number in hexadecimal.
HexDigits == <<"0","1","2","3","4","5","6","7","8","9","A","B","C","D","E","F">>

RECURSIVE Hex(_)
Hex(n) ==
    IF n < 16 THEN HexDigits[n + 1]
    ELSE Hex(n \div 16) \o HexDigits[(n % 16) + 1]

\* The character of code point n, n above U+00FF.
Char(n) ==
    "U+" \o (IF n < 4096 THEN "0" ELSE "") \o Hex(n)

\* The characters of the code points lo, lo + step, ..., hi.
Chars(lo, hi, step) == {Char(n) : n \in {m \in lo..hi : (m - lo) % step = 0}}

\* The characters of a sequence of ranges <<lo, hi>> of code points.
CharsOf(ranges) ==
    UNION {Chars(ranges[k][1], ranges[k][2], 1) : k \in 1..Len(ranges)}

UpperCase == <<"A","B","C","D","E","F","G","H","I","J","K","L","M",
               "N","O","P","Q","R","S","T","U","V","W","X","Y","Z">>
LowerCase == <<"a","b","c","d","e","f","g","h","i","j","k","l","m",
               "n","o","p","q","r","s","t","u","v","w","x","y","z">>

\* The capitals of U+00C0..U+00DE and what str.lower() makes of them.
Latin1UpperCase ==
    << "À", "Á", "Â", "Ã", "Ä", "Å", "Æ", "Ç", "È", "É", "Ê", "Ë", "Ì",
       "Í", "Î", "Ï", "Ð", "Ñ", "Ò", "Ó", "Ô", "Õ", "Ö", "Ø", "Ù", "Ú",
       "Û", "Ü", "Ý", "Þ" >>
Latin1LowerCase ==
    << "à", "á", "â", "ã", "ä", "å", "æ", "ç", "è", "é", "ê", "ë", "ì",
       "í", "î", "ï", "ð", "ñ", "ò", "ó", "ô", "õ", "ö", "ø", "ù", "ú",
       "û", "ü", "ý", "þ" >>

\* Capitals above U+00FF that str.lower() takes to a character below it.
LowersToLatin1 ==
    { <<"U+0178", "ÿ">>, <<"U+1E9E", "ß">>, <<"U+212A", "k">>, <<"U+212B", "å">> }

\* str.lower() above U+00FF (Unicode 14.0.0): <<lo, hi, step, d>> takes each of
\* the code points lo, lo + step, ..., hi to the code point d further on.
LowerRanges ==
    << <<256, 302, 2, 1>>, <<306, 310, 2, 1>>, <<313, 327, 2, 1>>,
       <<330, 374, 2, 1>>, <<377, 381, 2, 1>>, <<385, 385, 1, 210>>,
       <<386, 388, 2, 1>>, <<390, 390, 1, 206>>, <<391, 391, 1, 1>>,
       <<393, 394, 1, 205>>, <<395, 395, 1, 1>>, <<398, 398, 1, 79>>,
       <<399, 399, 1, 202>>, <<400, 400, 1, 203>>, <<401, 401, 1, 1>>,
       <<403, 403, 1, 205>>, <<404, 404, 1, 207>>, <<406, 406, 1, 211>>,
       <<407, 407, 1, 209>>, <<408, 408, 1, 1>>, <<412, 412, 1, 211>>,
       <<413, 413, 1, 213>>, <<415, 415, 1, 214>>, <<416, 420, 2, 1>>,
       <<422, 422, 1, 218>>, <<423, 423, 1, 1>>, <<425, 425, 1, 218>>,
       <<428, 428, 1, 1>>, <<430, 430, 1, 218>>, <<431, 431, 1, 1>>,
       <<433, 434, 1, 217>>, <<435, 437, 2, 1>>, <<439, 439, 1, 219>>,
       <<440, 440, 1, 1>>, <<444, 444, 1, 1>>, <<452, 452, 1, 2>>,
       <<453, 453, 1, 1>>, <<455, 455, 1, 2>>, <<456, 456, 1, 1>>,
       <<458, 458, 1, 2>>, <<459, 475, 2, 1>>, <<478, 494, 2, 1>>,
       <<497, 497, 1, 2>>, <<498, 500, 2, 1>>, <<502, 502, 1, -97>>,
       <<503, 503, 1, -56>>, <<504, 542, 2, 1>>, <<544, 544, 1, -130>>,
       <<546, 562, 2, 1>>, <<570, 570, 1, 10795>>, <<571, 571, 1, 1>>,
       <<573, 573, 1, -163>>, <<574, 574, 1, 10792>>, <<577, 577, 1, 1>>,
       <<579, 579, 1, -195>>, <<580, 580, 1, 69>>, <<581, 581, 1, 71>>,
       <<582, 590, 2, 1>>, <<880, 882, 2, 1>>, <<886, 886, 1, 1>>,
       <<895, 895, 1, 116>>, <<902, 902, 1, 38>>, <<904, 906, 1, 37>>,
       <<908, 908, 1, 64>>, <<910, 911, 1, 63>>, <<913, 929, 1, 32>>,
       <<931, 939, 1, 32>>, <<975, 975, 1, 8>>, <<984, 1006, 2, 1>>,
       <<1012, 1012, 1, -60>>, <<1015, 1015, 1, 1>>, <<1017, 1017, 1, -7>>,
       <<1018, 1018, 1, 1>>, <<1021, 1023, 1, -130>>,
       <<1024, 1039, 1, 80>>, <<1040, 1071, 1, 32>>, <<1120, 1152, 2, 1>>,
       <<1162, 1214, 2, 1>>, <<1216, 1216, 1, 15>>, <<1217, 1229, 2, 1>>,
       <<1232, 1326, 2, 1>>, <<1329, 1366, 1, 48>>,
       <<4256, 4293, 1, 7264>>, <<4295, 4295, 1, 7264>>,
       <<4301, 4301, 1, 7264>>, <<5024, 5103, 1, 38864>>,
       <<5104, 5109, 1, 8>>, <<7312, 7354, 1, -3008>>,
       <<7357, 7359, 1, -3008>>, <<7680, 7828, 2, 1>>,
       <<7840, 7934, 2, 1>>, <<7944, 7951, 1, -8>>, <<7960, 7965, 1, -8>>,
       <<7976, 7983, 1, -8>>, <<7992, 7999, 1, -8>>, <<8008, 8013, 1, -8>>,
       <<8025, 8031, 2, -8>>, <<8040, 8047, 1, -8>>, <<8072, 8079, 1, -8>>,
       <<8088, 8095, 1, -8>>, <<8104, 8111, 1, -8>>, <<8120, 8121, 1, -8>>,
       <<8122, 8123, 1, -74>>, <<8124, 8124, 1, -9>>,
       <<8136, 8139, 1, -86>>, <<8140, 8140, 1, -9>>,
       <<8152, 8153, 1, -8>>, <<8154, 8155, 1, -100>>,
       <<8168, 8169, 1, -8>>, <<8170, 8171, 1, -112>>,
       <<8172, 8172, 1, -7>>, <<8184, 8185, 1, -128>>,
       <<8186, 8187, 1, -126>>, <<8188, 8188, 1, -9>>,
       <<8486, 8486, 1, -7517>>, <<8498, 8498, 1, 28>>,
       <<8544, 8559, 1, 16>>, <<8579, 8579, 1, 1>>, <<9398, 9423, 1, 26>>,
       <<11264, 11311, 1, 48>>, <<11360, 11360, 1, 1>>,
       <<11362, 11362, 1, -10743>>, <<11363, 11363, 1, -3814>>,
       <<11364, 11364, 1, -10727>>, <<11367, 11371, 2, 1>>,
       <<11373, 11373, 1, -10780>>, <<11374, 11374, 1, -10749>>,
       <<11375, 11375, 1, -10783>>, <<11376, 11376, 1, -10782>>,
       <<11378, 11378, 1, 1>>, <<11381, 11381, 1, 1>>,
       <<11390, 11391, 1, -10815>>, <<11392, 11490, 2, 1>>,
       <<11499, 11501, 2, 1>>, <<11506, 11506, 1, 1>>,
       <<42560, 42604, 2, 1>>, <<42624, 42650, 2, 1>>,
       <<42786, 42798, 2, 1>>, <<42802, 42862, 2, 1>>,
       <<42873, 42875, 2, 1>>, <<42877, 42877, 1, -35332>>,
       <<42878, 42886, 2, 1>>, <<42891, 42891, 1, 1>>,
       <<42893, 42893, 1, -42280>>, <<42896, 42898, 2, 1>>,
       <<42902, 42920, 2, 1>>, <<42922, 42922, 1, -42308>>,
       <<42923, 42923, 1, -42319>>, <<42924, 42924, 1, -42315>>,
       <<42925, 42925, 1, -42305>>, <<42926, 42926, 1, -42308>>,
       <<42928, 42928, 1, -42258>>, <<42929, 42929, 1, -42282>>,
       <<42930, 42930, 1, -42261>>, <<42931, 42931, 1, 928>>,
       <<42932, 42946, 2, 1>>, <<42948, 42948, 1, -48>>,
       <<42949, 42949, 1, -42307>>, <<42950, 42950, 1, -35384>>,
       <<42951, 42953, 2, 1>>, <<42960, 42960, 1, 1>>,
       <<42966, 42968, 2, 1>>, <<42997, 42997, 1, 1>>,
       <<65313, 65338, 1, 32>>, <<66560, 66599, 1, 40>>,
       <<66736, 66771, 1, 40>>, <<66928, 66964, 2, 39>>,
       <<66929, 66937, 2, 39>>, <<66941, 66953, 2, 39>>,
       <<66957, 66961, 2, 39>>, <<66965, 66965, 1, 39>>,
       <<68736, 68786, 1, 64>>, <<71840, 71871, 1, 32>>,
       <<93760, 93791, 1, 32>>, <<125184, 125217, 1, 34>> >>

\* The pairs <<c, d>> of a character and the one character str.lower()
\* makes of it, for every character it changes into one character.
LowerPairs ==
    {<<UpperCase[i], LowerCase[i]>> : i \in 1..Len(UpperCase)}
        \cup {<<Latin1UpperCase[i], Latin1LowerCase[i]>> :
                 i \in 1..Len(Latin1UpperCase)}
        \cup LowersToLatin1
        \cup UNION {{<<Char(n), Char(n + LowerRanges[k][4])>> :
                        n \in {m \in LowerRanges[k][1]..LowerRanges[k][2] :
                                  (m - LowerRanges[k][1]) % LowerRanges[k][3] = 0}} :
                    k \in 1..Len(LowerRanges)}

Capitals == {p[1] : p \in LowerPairs}

Lowered == [c \in Capitals |-> (CHOOSE p \in LowerPairs : p[1] = c)[2]]

\* U+0130 (capital I with dot above) lowers to two code points, "i" U+0307:
\* str.lower() may change the length of the text.
IDot == "U+0130"
CombiningDot == "U+0307"

\* U+03A3 (capital sigma) lowers to U+03C2 at the end of a word and to U+03C3
\* elsewhere.
Sigma == "U+03A3"
SmallSigma == "U+03C3"
FinalSmallSigma == "U+03C2"

\* The cased characters (Lowercase, Uppercase or titlecase) up to U+00FF.
Latin1Cased ==
    { "A", "B", "C", "D", "E", "F", "G", "H", "I", "J", "K", "L", "M", "N",
      "O", "P", "Q", "R", "S", "T", "U", "V", "W", "X", "Y", "Z", "a", "b",
      "c", "d", "e", "f", "g", "h", "i", "j", "k", "l", "m", "n", "o", "p",
      "q", "r", "s", "t", "u", "v", "w", "x", "y", "z", "ª", "µ", "º", "À",
      "Á", "Â", "Ã", "Ä", "Å", "Æ", "Ç", "È", "É", "Ê", "Ë", "Ì", "Í", "Î",
      "Ï", "Ð", "Ñ", "Ò", "Ó", "Ô", "Õ", "Ö", "Ø", "Ù", "Ú", "Û", "Ü", "Ý",
      "Þ", "ß", "à", "á", "â", "ã", "ä", "å", "æ", "ç", "è", "é", "ê", "ë",
      "ì", "í", "î", "ï", "ð", "ñ", "ò", "ó", "ô", "õ", "ö", "ø", "ù", "ú",
      "û", "ü", "ý", "þ", "ÿ" }

\* The ranges of the cased characters above U+00FF.
CasedRanges ==
    << <<256, 442>>, <<444, 447>>, <<452, 659>>, <<661, 696>>,
       <<704, 705>>, <<736, 740>>, <<837, 837>>, <<880, 883>>,
       <<886, 887>>, <<890, 893>>, <<895, 895>>, <<902, 902>>,
       <<904, 906>>, <<908, 908>>, <<910, 929>>, <<931, 1013>>,
       <<1015, 1153>>, <<1162, 1327>>, <<1329, 1366>>, <<1376, 1416>>,
       <<4256, 4293>>, <<4295, 4295>>, <<4301, 4301>>, <<4304, 4346>>,
       <<4349, 4351>>, <<5024, 5109>>, <<5112, 5117>>, <<7296, 7304>>,
       <<7312, 7354>>, <<7357, 7359>>, <<7424, 7615>>, <<7680, 7957>>,
       <<7960, 7965>>, <<7968, 8005>>, <<8008, 8013>>, <<8016, 8023>>,
       <<8025, 8025>>, <<8027, 8027>>, <<8029, 8029>>, <<8031, 8061>>,
       <<8064, 8116>>, <<8118, 8124>>, <<8126, 8126>>, <<8130, 8132>>,
       <<8134, 8140>>, <<8144, 8147>>, <<8150, 8155>>, <<8160, 8172>>,
       <<8178, 8180>>, <<8182, 8188>>, <<8305, 8305>>, <<8319, 8319>>,
       <<8336, 8348>>, <<8450, 8450>>, <<8455, 8455>>, <<8458, 8467>>,
       <<8469, 8469>>, <<8473, 8477>>, <<8484, 8484>>, <<8486, 8486>>,
       <<8488, 8488>>, <<8490, 8493>>, <<8495, 8500>>, <<8505, 8505>>,
       <<8508, 8511>>, <<8517, 8521>>, <<8526, 8526>>, <<8544, 8575>>,
       <<8579, 8580>>, <<9398, 9449>>, <<11264, 11492>>, <<11499, 11502>>,
       <<11506, 11507>>, <<11520, 11557>>, <<11559, 11559>>,
       <<11565, 11565>>, <<42560, 42605>>, <<42624, 42653>>,
       <<42786, 42887>>, <<42891, 42894>>, <<42896, 42954>>,
       <<42960, 42961>>, <<42963, 42963>>, <<42965, 42969>>,
       <<42997, 42998>>, <<43000, 43002>>, <<43824, 43866>>,
       <<43868, 43880>>, <<43888, 43967>>, <<64256, 64262>>,
       <<64275, 64279>>, <<65313, 65338>>, <<65345, 65370>>,
       <<66560, 66639>>, <<66736, 66771>>, <<66776, 66811>>,
       <<66928, 66938>>, <<66940, 66954>>, <<66956, 66962>>,
       <<66964, 66965>>, <<66967, 66977>>, <<66979, 66993>>,
       <<66995, 67001>>, <<67003, 67004>>, <<67456, 67456>>,
       <<67459, 67461>>, <<67463, 67504>>, <<67506, 67514>>,
       <<68736, 68786>>, <<68800, 68850>>, <<71840, 71903>>,
       <<93760, 93823>>, <<119808, 119892>>, <<119894, 119964>>,
       <<119966, 119967>>, <<119970, 119970>>, <<119973, 119974>>,
       <<119977, 119980>>, <<119982, 119993>>, <<119995, 119995>>,
       <<119997, 120003>>, <<120005, 120069>>, <<120071, 120074>>,
       <<120077, 120084>>, <<120086, 120092>>, <<120094, 120121>>,
       <<120123, 120126>>, <<120128, 120132>>, <<120134, 120134>>,
       <<120138, 120144>>, <<120146, 120485>>, <<120488, 120512>>,
       <<120514, 120538>>, <<120540, 120570>>, <<120572, 120596>>,
       <<120598, 120628>>, <<120630, 120654>>, <<120656, 120686>>,
       <<120688, 120712>>, <<120714, 120744>>, <<120746, 120770>>,
       <<120772, 120779>>, <<122624, 122633>>, <<122635, 122654>>,
       <<125184, 125251>>, <<127280, 127305>>, <<127312, 127337>>,
       <<127344, 127369>> >>

Cased == Latin1Cased \cup CharsOf(CasedRanges)

\* The case-ignorable characters up to U+00FF: U+0027, U+002E, U+003A, U+005E, U+0060, U+00A8, U+00AD, U+00AF, U+00B4, U+00B7, U+00B8.
Latin1CaseIgnorable ==
    { "'", ".", ":", "^", "U+0060", "¨", "­", "¯", "´", "·", "¸" }

\* The ranges of the case-ignorable characters above U+00FF.
CaseIgnorableRanges ==
    << <<688, 879>>, <<884, 885>>, <<890, 890>>, <<900, 901>>,
       <<903, 903>>, <<1155, 1161>>, <<1369, 1369>>, <<1375, 1375>>,
       <<1425, 1469>>, <<1471, 1471>>, <<1473, 1474>>, <<1476, 1477>>,
       <<1479, 1479>>, <<1524, 1524>>, <<1536, 1541>>, <<1552, 1562>>,
       <<1564, 1564>>, <<1600, 1600>>, <<1611, 1631>>, <<1648, 1648>>,
       <<1750, 1757>>, <<1759, 1768>>, <<1770, 1773>>, <<1807, 1807>>,
       <<1809, 1809>>, <<1840, 1866>>, <<1958, 1968>>, <<2027, 2037>>,
       <<2042, 2042>>, <<2045, 2045>>, <<2070, 2093>>, <<2137, 2139>>,
       <<2184, 2184>>, <<2192, 2193>>, <<2200, 2207>>, <<2249, 2306>>,
       <<2362, 2362>>, <<2364, 2364>>, <<2369, 2376>>, <<2381, 2381>>,
       <<2385, 2391>>, <<2402, 2403>>, <<2417, 2417>>, <<2433, 2433>>,
       <<2492, 2492>>, <<2497, 2500>>, <<2509, 2509>>, <<2530, 2531>>,
       <<2558, 2558>>, <<2561, 2562>>, <<2620, 2620>>, <<2625, 2626>>,
       <<2631, 2632>>, <<2635, 2637>>, <<2641, 2641>>, <<2672, 2673>>,
       <<2677, 2677>>, <<2689, 2690>>, <<2748, 2748>>, <<2753, 2757>>,
       <<2759, 2760>>, <<2765, 2765>>, <<2786, 2787>>, <<2810, 2815>>,
       <<2817, 2817>>, <<2876, 2876>>, <<2879, 2879>>, <<2881, 2884>>,
       <<2893, 2893>>, <<2901, 2902>>, <<2914, 2915>>, <<2946, 2946>>,
       <<3008, 3008>>, <<3021, 3021>>, <<3072, 3072>>, <<3076, 3076>>,
       <<3132, 3132>>, <<3134, 3136>>, <<3142, 3144>>, <<3146, 3149>>,
       <<3157, 3158>>, <<3170, 3171>>, <<3201, 3201>>, <<3260, 3260>>,
       <<3263, 3263>>, <<3270, 3270>>, <<3276, 3277>>, <<3298, 3299>>,
       <<3328, 3329>>, <<3387, 3388>>, <<3393, 3396>>, <<3405, 3405>>,
       <<3426, 3427>>, <<3457, 3457>>, <<3530, 3530>>, <<3538, 3540>>,
       <<3542, 3542>>, <<3633, 3633>>, <<3636, 3642>>, <<3654, 3662>>,
       <<3761, 3761>>, <<3764, 3772>>, <<3782, 3782>>, <<3784, 3789>>,
       <<3864, 3865>>, <<3893, 3893>>, <<3895, 3895>>, <<3897, 3897>>,
       <<3953, 3966>>, <<3968, 3972>>, <<3974, 3975>>, <<3981, 3991>>,
       <<3993, 4028>>, <<4038, 4038>>, <<4141, 4144>>, <<4146, 4151>>,
       <<4153, 4154>>, <<4157, 4158>>, <<4184, 4185>>, <<4190, 4192>>,
       <<4209, 4212>>, <<4226, 4226>>, <<4229, 4230>>, <<4237, 4237>>,
       <<4253, 4253>>, <<4348, 4348>>, <<4957, 4959>>, <<5906, 5908>>,
       <<5938, 5939>>, <<5970, 5971>>, <<6002, 6003>>, <<6068, 6069>>,
       <<6071, 6077>>, <<6086, 6086>>, <<6089, 6099>>, <<6103, 6103>>,
       <<6109, 6109>>, <<6155, 6159>>, <<6211, 6211>>, <<6277, 6278>>,
       <<6313, 6313>>, <<6432, 6434>>, <<6439, 6440>>, <<6450, 6450>>,
       <<6457, 6459>>, <<6679, 6680>>, <<6683, 6683>>, <<6742, 6742>>,
       <<6744, 6750>>, <<6752, 6752>>, <<6754, 6754>>, <<6757, 6764>>,
       <<6771, 6780>>, <<6783, 6783>>, <<6823, 6823>>, <<6832, 6862>>,
       <<6912, 6915>>, <<6964, 6964>>, <<6966, 6970>>, <<6972, 6972>>,
       <<6978, 6978>>, <<7019, 7027>>, <<7040, 7041>>, <<7074, 7077>>,
       <<7080, 7081>>, <<7083, 7085>>, <<7142, 7142>>, <<7144, 7145>>,
       <<7149, 7149>>, <<7151, 7153>>, <<7212, 7219>>, <<7222, 7223>>,
       <<7288, 7293>>, <<7376, 7378>>, <<7380, 7392>>, <<7394, 7400>>,
       <<7405, 7405>>, <<7412, 7412>>, <<7416, 7417>>, <<7468, 7530>>,
       <<7544, 7544>>, <<7579, 7679>>, <<8125, 8125>>, <<8127, 8129>>,
       <<8141, 8143>>, <<8157, 8159>>, <<8173, 8175>>, <<8189, 8190>>,
       <<8203, 8207>>, <<8216, 8217>>, <<8228, 8228>>, <<8231, 8231>>,
       <<8234, 8238>>, <<8288, 8292>>, <<8294, 8303>>, <<8305, 8305>>,
       <<8319, 8319>>, <<8336, 8348>>, <<8400, 8432>>, <<11388, 11389>>,
       <<11503, 11505>>, <<11631, 11631>>, <<11647, 11647>>,
       <<11744, 11775>>, <<11823, 11823>>, <<12293, 12293>>,
       <<12330, 12333>>, <<12337, 12341>>, <<12347, 12347>>,
       <<12441, 12446>>, <<12540, 12542>>, <<40981, 40981>>,
       <<42232, 42237>>, <<42508, 42508>>, <<42607, 42610>>,
       <<42612, 42621>>, <<42623, 42623>>, <<42652, 42655>>,
       <<42736, 42737>>, <<42752, 42785>>, <<42864, 42864>>,
       <<42888, 42890>>, <<42994, 42996>>, <<43000, 43001>>,
       <<43010, 43010>>, <<43014, 43014>>, <<43019, 43019>>,
       <<43045, 43046>>, <<43052, 43052>>, <<43204, 43205>>,
       <<43232, 43249>>, <<43263, 43263>>, <<43302, 43309>>,
       <<43335, 43345>>, <<43392, 43394>>, <<43443, 43443>>,
       <<43446, 43449>>, <<43452, 43453>>, <<43471, 43471>>,
       <<43493, 43494>>, <<43561, 43566>>, <<43569, 43570>>,
       <<43573, 43574>>, <<43587, 43587>>, <<43596, 43596>>,
       <<43632, 43632>>, <<43644, 43644>>, <<43696, 43696>>,
       <<43698, 43700>>, <<43703, 43704>>, <<43710, 43711>>,
       <<43713, 43713>>, <<43741, 43741>>, <<43756, 43757>>,
       <<43763, 43764>>, <<43766, 43766>>, <<43867, 43871>>,
       <<43881, 43883>>, <<44005, 44005>>, <<44008, 44008>>,
       <<44013, 44013>>, <<64286, 64286>>, <<64434, 64450>>,
       <<65024, 65039>>, <<65043, 65043>>, <<65056, 65071>>,
       <<65106, 65106>>, <<65109, 65109>>, <<65279, 65279>>,
       <<65287, 65287>>, <<65294, 65294>>, <<65306, 65306>>,
       <<65342, 65342>>, <<65344, 65344>>, <<65392, 65392>>,
       <<65438, 65439>>, <<65507, 65507>>, <<65529, 65531>>,
       <<66045, 66045>>, <<66272, 66272>>, <<66422, 66426>>,
       <<67456, 67461>>, <<67463, 67504>>, <<67506, 67514>>,
       <<68097, 68099>>, <<68101, 68102>>, <<68108, 68111>>,
       <<68152, 68154>>, <<68159, 68159>>, <<68325, 68326>>,
       <<68900, 68903>>, <<69291, 69292>>, <<69446, 69456>>,
       <<69506, 69509>>, <<69633, 69633>>, <<69688, 69702>>,
       <<69744, 69744>>, <<69747, 69748>>, <<69759, 69761>>,
       <<69811, 69814>>, <<69817, 69818>>, <<69821, 69821>>,
       <<69826, 69826>>, <<69837, 69837>>, <<69888, 69890>>,
       <<69927, 69931>>, <<69933, 69940>>, <<70003, 70003>>,
       <<70016, 70017>>, <<70070, 70078>>, <<70089, 70092>>,
       <<70095, 70095>>, <<70191, 70193>>, <<70196, 70196>>,
       <<70198, 70199>>, <<70206, 70206>>, <<70367, 70367>>,
       <<70371, 70378>>, <<70400, 70401>>, <<70459, 70460>>,
       <<70464, 70464>>, <<70502, 70508>>, <<70512, 70516>>,
       <<70712, 70719>>, <<70722, 70724>>, <<70726, 70726>>,
       <<70750, 70750>>, <<70835, 70840>>, <<70842, 70842>>,
       <<70847, 70848>>, <<70850, 70851>>, <<71090, 71093>>,
       <<71100, 71101>>, <<71103, 71104>>, <<71132, 71133>>,
       <<71219, 71226>>, <<71229, 71229>>, <<71231, 71232>>,
       <<71339, 71339>>, <<71341, 71341>>, <<71344, 71349>>,
       <<71351, 71351>>, <<71453, 71455>>, <<71458, 71461>>,
       <<71463, 71467>>, <<71727, 71735>>, <<71737, 71738>>,
       <<71995, 71996>>, <<71998, 71998>>, <<72003, 72003>>,
       <<72148, 72151>>, <<72154, 72155>>, <<72160, 72160>>,
       <<72193, 72202>>, <<72243, 72248>>, <<72251, 72254>>,
       <<72263, 72263>>, <<72273, 72278>>, <<72281, 72283>>,
       <<72330, 72342>>, <<72344, 72345>>, <<72752, 72758>>,
       <<72760, 72765>>, <<72767, 72767>>, <<72850, 72871>>,
       <<72874, 72880>>, <<72882, 72883>>, <<72885, 72886>>,
       <<73009, 73014>>, <<73018, 73018>>, <<73020, 73021>>,
       <<73023, 73029>>, <<73031, 73031>>, <<73104, 73105>>,
       <<73109, 73109>>, <<73111, 73111>>, <<73459, 73460>>,
       <<78896, 78904>>, <<92912, 92916>>, <<92976, 92982>>,
       <<92992, 92995>>, <<94031, 94031>>, <<94095, 94111>>,
       <<94176, 94177>>, <<94179, 94180>>, <<110576, 110579>>,
       <<110581, 110587>>, <<110589, 110590>>, <<113821, 113822>>,
       <<113824, 113827>>, <<118528, 118573>>, <<118576, 118598>>,
       <<119143, 119145>>, <<119155, 119170>>, <<119173, 119179>>,
       <<119210, 119213>>, <<119362, 119364>>, <<121344, 121398>>,
       <<121403, 121452>>, <<121461, 121461>>, <<121476, 121476>>,
       <<121499, 121503>>, <<121505, 121519>>, <<122880, 122886>>,
       <<122888, 122904>>, <<122907, 122913>>, <<122915, 122916>>,
       <<122918, 122922>>, <<123184, 123197>>, <<123566, 123566>>,
       <<123628, 123631>>, <<125136, 125142>>, <<125252, 125259>>,
       <<127995, 127999>>, <<917505, 917505>>, <<917536, 917631>>,
       <<917760, 917999>> >>

CaseIgnorable == Latin1CaseIgnorable \cup CharsOf(CaseIgnorableRanges)

\* "".join(pieces), the pieces joined by halves.
RECURSIVE Concat(_)
Concat(pieces) ==
    IF pieces = <<>> THEN <<>>
    ELSE IF Len(pieces) = 1 THEN pieces[1]
    ELSE LET half == Len(pieces) \div 2
         IN  Concat(SubSeq(pieces, 1, half))
                \o Concat(SubSeq(pieces, half + 1, Len(pieces)))

\* str.lower() of one character, as a sequence of characters.
LowerChar(c) ==
    IF c \in Capitals THEN <<Lowered[c]>>
    ELSE IF c = IDot THEN <<"i", CombiningDot>>
    ELSE <<c>>

\* Final_Sigma: the capital sigma at offset i of s stands after a cased
\* character and not before one, case-ignorable characters skipped.
FinalSigma(s, i) ==
    LET before == {j \in 1..(i - 1) : s[j] \notin CaseIgnorable}
        after == {j \in (i + 1)..Len(s) : s[j] \notin CaseIgnorable}
    IN  /\ \E j \in before : (\A h \in before : h <= j) /\ s[j] \in Cased
        /\ \A j \in after : (\A h \in after : j <= h) => s[j] \notin Cased

\* What str.lower() makes of the character at offset i of s.
LowerAt(s, i) ==
    IF s[i] = Sigma
    THEN <<IF FinalSigma(s, i) THEN FinalSmallSigma ELSE SmallSigma>>
    ELSE LowerChar(s[i])

\* s.lower()
lower(s) == Concat([i \in 1..Len(s) |-> LowerAt(s, i)])

\* Python's `k in s` on strings: k occurs at some offset of s.
RECURSIVE FindFrom(_, _, _)
FindFrom(k, s, i) ==
    IF i + Len(k) > Len(s) THEN FALSE
    ELSE IF SubSeq(s, i + 1, i + Len(k)) = k THEN TRUE
    ELSE FindFrom(k, s, i + 1)

Contains(k, s) == FindFrom(k, s, 0)

----------------------------------------------------------------------------
(* _is_course_related                                                      *)

course_keywords ==
    << <<"c","o","u","r","s","e">>,
       <<"l","e","a","r","n">>,
       <<"t","u","t","o","r","i","a","l">>,
       <<"c","l","a","s","s">>,
       <<"t","r","a","i","n","i","n","g">>,
       <<"e","d","u","c","a","t","i","o","n">> >>

\* A classifier that forgets to lower-case the query.
is_course_related_case_sensitive(query) ==
    \E i \in 1..Len(course_keywords) : Contains(course_keywords[i], query)

\* any(keyword in query.lower() for keyword in course_keywords)
is_course_related(query) ==
    \E i \in 1..Len(course_keywords) : Contains(course_keywords[i], lower(query))

----------------------------------------------------------------------------
(* Course records and load_course_data                                     *)

\* The keys load_course_data reads from each record, in the order it reads them.
RecordKeys == <<"title", "description", "instructor", "price", "curriculum", "url">>

Py == [title |-> <<"P","y","t","h","o","n"," ","f","o","r"," ","D","a","t","a"," ","S","c","i","e","n","c","e">>,
       description |-> <<"P","a","n","d","a","s"," ","a","n","d"," ","N","u","m","P","y"," ","f","r","o","m"," ","s","c","r","a","t","c","h">>,
       instructor |-> <<"A","d","a">>,
       price |-> <<"F","r","e","e">>,
       curriculum |-> << <<"I","n","t","r","o">>, <<"P","a","n","d","a","s">>, <<"N","u","m","P","y">> >>,
       url |-> <<"h","t","t","p","s",":","/","/","c","o","u","r","s","e","s",".","e","x","a","m","p","l","e","/","p","y">>]

Dl == [title |-> <<"D","e","e","p"," ","L","e","a","r","n","i","n","g"," ","F","u","n","d","a","m","e","n","t","a","l","s">>,
       description |-> <<"N","e","u","r","a","l"," ","n","e","t","w","o","r","k","s">>,
       instructor |-> <<"G","r","a","c","e">>,
       price |-> <<"$","4","9">>,
       curriculum |-> <<>>,
       url |-> <<"h","t","t","p","s",":","/","/","c","o","u","r","s","e","s",".","e","x","a","m","p","l","e","/","d","l">>]

Ml == [title |-> <<"M","a","c","h","i","n","e"," ","L","e","a","r","n","i","n","g"," ","B","a","s","i","c","s">>,
       description |-> <<>>,
       instructor |-> <<"A","l","a","n">>,
       price |-> <<"N","/","A">>,
       curriculum |-> << <<"R","e","g","r","e","s","s","i","o","n">> >>,
       url |-> <<"h","t","t","p","s",":","/","/","c","o","u","r","s","e","s",".","e","x","a","m","p","l","e","/","m","l">>]

\* A course of many modules: its document is longer than a chunk.
NlpModules == 55

Nlp == [title |-> <<"N","a","t","u","r","a","l"," ","L","a","n","g","u","a","g","e"," ","P","r","o","c","e","s","s","i","n","g">>,
        description |-> <<"T","o","k","e","n","s"," ","t","o"," ","t","r","a","n","s","f","o","r","m","e","r","s">>,
        instructor |-> <<"N","o","a","m">>,
        price |-> <<"$","9","9">>,
        curriculum |-> [i \in 1..NlpModules |-> <<"W","e","e","k">>],
        url |-> <<"h","t","t","p","s",":","/","/","c","o","u","r","s","e","s",".","e","x","a","m","p","l","e","/","n","l","p">>]

\* A record holding only the keys in `keys` (a JSON object with keys missing).
Restrict(course, keys) == [f \in keys |-> course[f]]

\* ' | '.join(items)
RECURSIVE Join(_)
Join(items) ==
    IF items = <<>> THEN <<>>
    ELSE IF Len(items) = 1 THEN items[1]
    ELSE LET half == Len(items) \div 2
         IN  Join(SubSeq(items, 1, half)) \o <<" ","|"," ">>
                \o Join(SubSeq(items, half + 1, Len(items)))

\* The indentation of the lines of the f-string.
IndentWidth == 12
Indent == [i \in 1..IndentWidth |-> " "]

\* The white space the f-string opens and closes with, and that stands
\* between two of its lines.
Margin == <<"\n">> \o Indent

\* The f-string between its leading and trailing white space.
Body(course) ==
    <<"T","i","t","l","e",":"," ">> \o course.title \o Margin \o
    <<"D","e","s","c","r","i","p","t","i","o","n",":"," ">> \o course.description \o Margin \o
    <<"I","n","s","t","r","u","c","t","o","r",":"," ">> \o course.instructor \o Margin \o
    <<"P","r","i","c","e",":"," ">> \o course.price \o Margin \o
    <<"C","u","r","r","i","c","u","l","u","m",":"," ">> \o Join(course.curriculum) \o Margin \o
    <<"U","R","L",":"," ">> \o course.url

Content(course) == Margin \o Body(course) \o Margin

Metadata(course) ==
    [title |-> course.title, url |-> course.url,
     price |-> course.price, instructor |-> course.instructor]

MakeDocument(course) ==
    [page_content |-> Content(course), metadata |-> Metadata(course)]

\* The first key of RecordKeys the record lacks (0: none): course[key] raises
\* KeyError there.
FirstMissing(course) ==
    IF \A i \in 1..Len(RecordKeys) : RecordKeys[i] \in DOMAIN course THEN 0
    ELSE CHOOSE i \in 1..Len(RecordKeys) :
            /\ RecordKeys[i] \notin DOMAIN course
            /\ \A j \in 1..(i - 1) : RecordKeys[j] \in DOMAIN course

\* The loop of load_course_data over the records left, `documents` so far.
RECURSIVE LoadFrom(_, _)
LoadFrom(courses, documents) ==
    IF courses = <<>> THEN [raised |-> None, value |-> documents]
    ELSE LET missing == FirstMissing(Head(courses))
         IN  IF missing # 0
             THEN [raised |-> "KeyError", key |-> RecordKeys[missing]]
             ELSE LoadFrom(Tail(courses),
                           Append(documents, MakeDocument(Head(courses))))

load_course_data(courses) == LoadFrom(courses, <<>>)

----------------------------------------------------------------------------
(* Chunks, the Chroma collection and similarity search                     *)

chunk_size == 500
chunk_overlap == 50
retriever_k == 3      \* search_kwargs={"k": 3}
similar_n == 3        \* similar_courses(query, n=3)

\* RecursiveCharacterTextSplitter(chunk_size=500, chunk_overlap=50): the
\* separators it tries in order (the last, the empty one, splits between any
\* two characters); it keeps each separator at the head of the piece that
\* follows it and strips the chunks it makes.
separators == << <<"\n","\n">>, <<"\n">>, <<" ">>, <<>> >>

\* The characters str.strip() removes (str.isspace()): up to U+00FF they are
\* U+0009, U+000A, U+000B, U+000C, U+000D, U+001C, U+001D, U+001E, U+001F, U+0020, U+0085, U+00A0.
Latin1WhiteSpace ==
    { "\t", "\n", "", "\f", "\r", "", "", "", "", " ", "", " " }

\* The ranges of the white space above U+00FF.
WhiteSpaceRanges ==
    << <<5760, 5760>>, <<8192, 8202>>, <<8232, 8233>>, <<8239, 8239>>,
       <<8287, 8287>>, <<12288, 12288>> >>

WhiteSpace == Latin1WhiteSpace \cup CharsOf(WhiteSpaceRanges)

Least(S) == CHOOSE i \in S : \A j \in S : i <= j

\* text.strip(): the text from its first to its last character that is not
\* white space.
Strip(text) ==
    LET Inked(i) == text[i] \notin WhiteSpace
    IN  IF \A i \in 1..Len(text) : ~Inked(i) THEN <<>>
        ELSE SubSeq(text,
                    CHOOSE i \in 1..Len(text) :
                        Inked(i) /\ \A j \in 1..(i - 1) : ~Inked(j),
                    CHOOSE i \in 1..Len(text) :
                        Inked(i) /\ \A j \in (i + 1)..Len(text) : ~Inked(j))

\* The offsets at which separator stands in text.
SeparatorAt(separator, text) ==
    {i \in 1..(Len(text) - Len(separator) + 1) :
        \A j \in 1..Len(separator) : text[i + j - 1] = separator[j]}

\* Of the offsets `at`, those from `from` on that a scan from the left
\* takes: each match hides the ones that begin inside it.
RECURSIVE Scan(_, _, _)
Scan(at, width, from) ==
    LET later == {i \in at : i >= from}
    IN  IF later = {} THEN {}
        ELSE {Least(later)} \cup Scan(later, width, Least(later) + width)

\* re.split: the occurrences of the separator it splits at, none
\* overlapping another.
Occurrences(at, width) ==
    IF \A i \in at : \A d \in 1..(width - 1) : i + d \notin at
    THEN at
    ELSE Scan(at, width, 1)

\* The members of a set of integers of lo..hi in ascending order.
RECURSIVE Sorted(_, _, _)
Sorted(S, lo, hi) ==
    IF S = {} THEN <<>>
    ELSE IF lo = hi THEN <<lo>>
    ELSE LET mid == (lo + hi) \div 2
         IN  Sorted({i \in S : i <= mid}, lo, mid)
                \o Sorted({i \in S : i > mid}, mid + 1, hi)

\* _split_text_with_regex(text, separator, keep_separator=True): the text
\* before the first separator, then each separator with the text that
\* follows it; empty pieces dropped. With the empty separator: list(text).
split_text_with_regex(text, separator) ==
    IF separator = <<>> THEN [i \in 1..Len(text) |-> <<text[i]>>]
    ELSE IF text = <<>> THEN <<>>
    ELSE LET cuts == {1} \cup Occurrences(SeparatorAt(separator, text),
                                         Len(separator))
             starts == Sorted(cuts, 1, Len(text))
             End(k) == IF k = Len(starts) THEN Len(text) ELSE starts[k + 1] - 1
         IN  [k \in 1..Len(starts) |-> SubSeq(text, starts[k], End(k))]

\* _join_docs(docs, ""): the pieces joined and stripped; None (here: no
\* chunk) when nothing is left.
join_docs(current_doc) ==
    LET text == Strip(Concat(current_doc))
    IN  IF text = <<>> THEN <<>> ELSE <<text>>

\* Ends(pieces)[i]: the length of pieces[1], ..., pieces[i] joined.
RECURSIVE Ends(_)
Ends(pieces) ==
    IF pieces = <<>> THEN <<>>
    ELSE IF Len(pieces) = 1 THEN <<Len(pieces[1])>>
    ELSE LET half == Len(pieces) \div 2
             left == Ends(SubSeq(pieces, 1, half))
             right == Ends(SubSeq(pieces, half + 1, Len(pieces)))
         IN  left \o [i \in 1..Len(right) |-> left[half] + right[i]]

\* `total` of _merge_splits when current_doc is pieces s..i-1.
Total(ends, s, i) ==
    (IF i = 1 THEN 0 ELSE ends[i - 1]) - (IF s = 1 THEN 0 ELSE ends[s - 1])

\* The for loop of _merge_splits from piece i on, current_doc being pieces
\* s..i-1. The loop appends pieces up to the first piece j that would take
\* current_doc over chunk_size: there current_doc is joined into a chunk and
\* (the while loop) pieces leave its head until what stays is within
\* chunk_overlap and leaves room for piece j.
RECURSIVE MergeFrom(_, _, _, _)
MergeFrom(splits, ends, s, i) ==
    LET full == {j \in i..Len(splits) :
                    j > s /\ Total(ends, s, j) + Len(splits[j]) > chunk_size}
    IN  IF full = {} THEN join_docs(SubSeq(splits, s, Len(splits)))
        ELSE LET j == Least(full)
                 Drop(h) == \/ Total(ends, h, j) > chunk_overlap
                            \/ /\ Total(ends, h, j) + Len(splits[j]) > chunk_size
                               /\ Total(ends, h, j) > 0
                 head == Least({h \in s..j : ~Drop(h)})
             IN  join_docs(SubSeq(splits, s, j - 1))
                    \o MergeFrom(splits, ends, head, j + 1)

\* _merge_splits(splits, ""): pieces packed into chunks of at most chunk_size
\* characters, each chunk opening with the tail of the one before it.
merge_splits(splits) == MergeFrom(splits, Ends(splits), 1, 1)

\* The index in seps of the first separator that is empty or occurs in text
\* (0: none does).
FirstSeparator(text, seps) ==
    LET fit == {i \in 1..Len(seps) :
                   seps[i] = <<>> \/ SeparatorAt(seps[i], text) # {}}
    IN  IF fit = {} THEN 0 ELSE Least(fit)

RECURSIVE split_text(_, _)
RECURSIVE SplitFrom(_, _)

\* The for loop of _split_text over the pieces left: the pieces shorter than
\* chunk_size that stand before the first longer one are merged; the longer
\* one is split again with the separators left, or kept whole when none is
\* left.
SplitFrom(splits, new_separators) ==
    LET long == {j \in 1..Len(splits) : Len(splits[j]) >= chunk_size}
    IN  IF long = {}
        THEN IF splits # <<>> THEN merge_splits(splits) ELSE <<>>
        ELSE LET j == Least(long)
                 good_splits == SubSeq(splits, 1, j - 1)
             IN  (IF good_splits # <<>> THEN merge_splits(good_splits)
                  ELSE <<>>)
                    \o (IF new_separators = <<>> THEN <<splits[j]>>
                        ELSE split_text(splits[j], new_separators))
                    \o SplitFrom(SubSeq(splits, j + 1, Len(splits)),
                                 new_separators)

\* _split_text(text, separators)
split_text(text, seps) ==
    LET i == FirstSeparator(text, seps)
        separator == IF i = 0 THEN seps[Len(seps)] ELSE seps[i]
        new_separators == IF i = 0 \/ separator = <<>> THEN <<>>
                          ELSE SubSeq(seps, i + 1, Len(seps))
    IN  SplitFrom(split_text_with_regex(text, separator), new_separators)

\* create_documents: every chunk of a document carries the document's metadata.
MakeChunks(doc) ==
    LET chunks == split_text(doc.page_content, separators)
    IN  [i \in 1..Len(chunks) |->
            [page_content |-> chunks[i], metadata |-> doc.metadata]]

\* text_splitter.split_documents(documents)
RECURSIVE split_documents(_)
split_documents(documents) ==
    IF documents = <<>> THEN <<>>
    ELSE MakeChunks(Head(documents)) \o split_documents(Tail(documents))

\* What the embedding model makes of a text, reduced to the subject it is
\* nearest to: a query is near a chunk when it names the chunk's subject.
Subject(chunk) ==
    CASE chunk.metadata.title = Py.title -> <<"p","y">>
      [] chunk.metadata.title = Dl.title -> <<"d","l">>
      [] chunk.metadata.title = Nlp.title -> <<"n","l","p">>
      [] OTHER -> <<"m","l">>

Similarity(text, chunk) == IF Contains(Subject(chunk), lower(text)) THEN 1 ELSE 0

\* The collection ranked for a text: by descending similarity, ties in
\* insertion order.
Ranked(text, chunks) ==
    LET Near(c) == Similarity(text, c) = 1
        Far(c) == Similarity(text, c) = 0
    IN  SelectSeq(chunks, Near) \o SelectSeq(chunks, Far)

Min(a, b) == IF a <= b THEN a ELSE b

\* vector_store.similarity_search(text, k=k): the k nearest chunks.
similarity_search(chunks, text, k) ==
    SubSeq(Ranked(text, chunks), 1, Min(k, Len(chunks)))

\* Chroma.from_documents(documents=texts, persist_directory=...): the client
\* opens the collection persisted at the directory (get_or_create) and adds
\* the texts to it under fresh ids.
from_documents(persistedChunks, texts) == persistedChunks \o texts

----------------------------------------------------------------------------
(* Inputs                                                                  *)

\* Course data files the build is run on.
FileA == <<Py, Dl>>
FileB == <<Nlp>>
DocumentSets == {load_course_data(FileA).value, load_course_data(FileB).value}

\* Queries sent by the presentation layer.
QLearnPy == <<"l","e","a","r","n"," ","p","y">>
QDlCourse == <<"D","L"," ","C","o","u","r","s","e">>
QLunch == <<"l","u","n","c","h">>
Queries == {QLearnPy, QDlCourse, QLunch}

\* Queries the caller of the API sends: one the classifier accepts, one it
\* rejects.
CallerQueries == {QLearnPy, QLunch}

SimilarNs == {1, 3}

----------------------------------------------------------------------------
(* search_courses, similar_courses: results                                *)

RejectionMessage == "Please enter a query related to courses."
ErrorMessage == "An error occurred while processing your query."
NotInitialized == "ValueError: QA chain not initialized. Run setup_qa_chain first."
MissingKey == "ValueError: Google API key not found in environment variables"
NoVectorStore == "AttributeError: 'NoneType' object has no attribute"

SearchResult(result, similar) ==
    ("Search Result" :> result) @@ ("Similar Courses" :> similar)

\* The record similar_courses builds from one search hit.
CourseOf(doc) ==
    [title |-> doc.metadata.title, url |-> doc.metadata.url,
     price |-> doc.metadata.price, instructor |-> doc.metadata.instructor]

RECURSIVE CoursesOf(_)
CoursesOf(results) ==
    IF results = <<>> THEN <<>>
    ELSE <<CourseOf(Head(results))>> \o CoursesOf(Tail(results))

\* similar_courses behind the classifier gate of search_courses.
similar_courses_gated(chunks, course_title, n) ==
    IF is_course_related(course_title)
    THEN CoursesOf(similarity_search(chunks, course_title, n))
    ELSE <<>>

\* similar_courses(course_title, n) against the collection `chunks`.
similar_courses(chunks, course_title, n) ==
    CoursesOf(similarity_search(chunks, course_title, n))

\* qa_chain.run(query) when nothing fails: the answer the model generates
\* from the query and the chunks the chain's retriever returned ("stuff").
RECURSIVE Text(_)
Text(chars) == IF chars = <<>> THEN "" ELSE Head(chars) \o Text(Tail(chars))

RECURSIVE Titles(_)
Titles(results) ==
    IF results = <<>> THEN <<>>
    ELSE <<Head(results).metadata.title>> \o Titles(Tail(results))

chain_run(chunks, query, k) ==
    "Answer to '" \o Text(query) \o "' from: "
        \o Text(Join(Titles(similarity_search(chunks, query, k))))

----------------------------------------------------------------------------
(* State                                                                   *)

\* A request thread between calls, before its first call.
IdleThread ==
    [pc |-> "idle",         \* idle | chain (line 120 next) | similar (line 121 next)
     op |-> None,           \* the operation last called
     query |-> <<>>,        \* its text argument
     n |-> 0,               \* similar_courses: its n
     ready |-> FALSE,       \* qa_chain was set when the call was entered
     effects |-> {},        \* backend operations the call invoked
     fault |-> None,        \* the backend operation that raised during the call
     answer |-> None,         \* result of qa_chain.run
     chain_store |-> NoStore, \* the Chroma object the chain's retriever searched
     similar_store |-> NoStore,\* the Chroma object similar_courses searched
     raised |-> None,       \* the exception the call raised to its caller
     returned |-> FALSE,    \* the call returned `value`
     value |-> NoneObj,     \* search_courses: the dict returned
     courses |-> <<>>]      \* similar_courses: the list returned

NoStores == [i \in 1..MaxBuilds |-> <<>>]

\* The main thread outside create_vector_store; inside it, before line 80,
\* pc is "persist" and texts is the local variable of line 71.
MainIdle == [pc |-> "idle", texts |-> <<>>]

Serving == <<vector_store, qa_chain, stores, disk, persisted>>

Init ==
    /\ env_key \in BOOLEAN
    /\ vector_store = NoStore
    /\ qa_chain = NoneObj
    /\ stores = NoStores
    /\ disk = <<>>
    /\ persisted = {}
    /\ nbuilds = 0
    /\ last_setup = NoneObj
    /\ main = MainIdle
    /\ th = [t \in Threads |-> IdleThread]
    /\ arg = <<>>
    /\ ret = NoneObj

----------------------------------------------------------------------------
(* Build operations (the main thread of app.py)                            *)

\* create_vector_store(documents) up to line 79: the documents are split,
\* a Chroma object is made of them over the persisted collection and
\* assigned to self.vector_store. The call then stands before line 80.
create_vector_store(documents) ==
    /\ main.pc = "idle"
    /\ nbuilds < MaxBuilds
    /\ LET texts == split_documents(documents)
           id == nbuilds + 1
       IN  /\ vector_store' = id
           /\ stores' = [stores EXCEPT ![id] = from_documents(disk, texts)]
           /\ nbuilds' = id
           /\ main' = [pc |-> "persist", texts |-> texts]
    /\ UNCHANGED <<env_key, qa_chain, disk, persisted, last_setup, th, arg, ret>>

\* create_vector_store, line 80: self.vector_store.persist() writes the
\* object's collection to the persist directory, or raises (fault
\* "persist") having written nothing; the call ends.
persist(fault) ==
    /\ main.pc = "persist"
    /\ IF fault = "persist"
       THEN UNCHANGED <<disk, persisted>>
       ELSE /\ disk' = stores[vector_store]
            /\ persisted' = persisted \cup {vector_store}
    /\ main' = MainIdle
    /\ UNCHANGED <<env_key, vector_store, qa_chain, stores, nbuilds, last_setup,
                   th, arg, ret>>

\* setup_qa_chain without the check of the credential: the key is only
\* missed when the backend is first called.
setup_qa_chain_unchecked ==
    /\ main.pc = "idle"
    /\ IF vector_store = NoStore
       THEN /\ last_setup' = [raised |-> NoVectorStore, built |-> {"llm"}]
            /\ UNCHANGED qa_chain
       ELSE /\ qa_chain' = [retriever |-> vector_store, k |-> retriever_k]
            /\ last_setup' = [raised |-> None, built |-> {"llm", "chain"}]
    /\ UNCHANGED <<env_key, vector_store, stores, disk, persisted, nbuilds,
                   main, th, arg, ret>>

\* setup_qa_chain with the retriever obtained lazily: the chain is assembled
\* around self.vector_store as it is, built or not.
setup_qa_chain_lazy_retriever ==
    /\ main.pc = "idle"
    /\ IF ~env_key
       THEN /\ last_setup' = [raised |-> MissingKey, built |-> {}]
            /\ UNCHANGED qa_chain
       ELSE /\ qa_chain' = [retriever |-> vector_store, k |-> retriever_k]
            /\ last_setup' = [raised |-> None, built |-> {"llm", "chain"}]
    /\ UNCHANGED <<env_key, vector_store, stores, disk, persisted, nbuilds,
                   main, th, arg, ret>>

\* setup_qa_chain()
setup_qa_chain ==
    /\ main.pc = "idle"
    /\ IF ~env_key
       THEN /\ last_setup' = [raised |-> MissingKey, built |-> {}]
            /\ UNCHANGED qa_chain
       ELSE IF vector_store = NoStore
       THEN \* the llm is built, then self.vector_store.as_retriever raises
            /\ last_setup' = [raised |-> NoVectorStore, built |-> {"llm"}]
            /\ UNCHANGED qa_chain
       ELSE /\ qa_chain' = [retriever |-> vector_store, k |-> retriever_k]
            /\ last_setup' = [raised |-> None, built |-> {"llm", "chain"}]
    /\ UNCHANGED <<env_key, vector_store, stores, disk, persisted, nbuilds,
                   main, th, arg, ret>>

\* The process ends and app.py is started again: a new CourseSearchSystem
\* (__init__), the persist directory as the last process left it.
Restart ==
    /\ nbuilds > 0
    /\ vector_store' = NoStore
    /\ qa_chain' = NoneObj
    /\ stores' = NoStores
    /\ persisted' = {}
    /\ last_setup' = NoneObj
    /\ main' = MainIdle
    /\ th' = [t \in Threads |-> IdleThread]
    /\ UNCHANGED <<env_key, disk, nbuilds, arg, ret>>

----------------------------------------------------------------------------
(* Query operations (request threads)                                      *)

ErrorResult == SearchResult(ErrorMessage, <<>>)

\* The call of thread t ends: it returns `value` or raises `raised`.
Return(t, fields, value) ==
    th' = [th EXCEPT ![t] = fields @@ [pc |-> "idle", returned |-> TRUE,
                                       value |-> value] @@ th[t]]

\* search_courses without the classifier gate: every query goes on to the chain.
SearchStartUngated(t, query) ==
    /\ th[t].pc = "idle"
    /\ LET call == [op |-> "search_courses", query |-> query,
                    ready |-> qa_chain # NoneObj] @@ IdleThread
       IN  IF qa_chain = NoneObj
           THEN th' = [th EXCEPT ![t] = [raised |-> NotInitialized] @@ call]
           ELSE th' = [th EXCEPT ![t] = [pc |-> "chain"] @@ call]
    /\ UNCHANGED <<env_key, vector_store, qa_chain, stores, disk, persisted,
                   nbuilds, last_setup, main, arg, ret>>

\* search_courses with its guard moved inside the try: the classifier runs
\* first and the not-initialized error is caught like any other.
SearchStartGuardInTry(t, query) ==
    /\ th[t].pc = "idle"
    /\ LET call == [op |-> "search_courses", query |-> query,
                    ready |-> qa_chain # NoneObj] @@ IdleThread
       IN  IF ~is_course_related(query)
           THEN th' = [th EXCEPT ![t] =
                          [returned |-> TRUE,
                           value |-> SearchResult(RejectionMessage, <<>>)] @@ call]
           ELSE IF qa_chain = NoneObj
           THEN th' = [th EXCEPT ![t] =
                          [returned |-> TRUE, value |-> ErrorResult] @@ call]
           ELSE th' = [th EXCEPT ![t] = [pc |-> "chain"] @@ call]
    /\ UNCHANGED <<env_key, vector_store, qa_chain, stores, disk, persisted,
                   nbuilds, last_setup, main, arg, ret>>

\* search_courses(query), lines 104-117: the guard and the classifier.
SearchStart(t, query) ==
    /\ th[t].pc = "idle"
    /\ LET call == [op |-> "search_courses", query |-> query,
                    ready |-> qa_chain # NoneObj] @@ IdleThread
       IN  IF qa_chain = NoneObj
           THEN th' = [th EXCEPT ![t] = [raised |-> NotInitialized] @@ call]
           ELSE IF ~is_course_related(query)
           THEN th' = [th EXCEPT ![t] =
                          [returned |-> TRUE,
                           value |-> SearchResult(RejectionMessage, <<>>)] @@ call]
           ELSE th' = [th EXCEPT ![t] = [pc |-> "chain"] @@ call]
    /\ UNCHANGED <<env_key, vector_store, qa_chain, stores, disk, persisted,
                   nbuilds, last_setup, main, arg, ret>>

\* A chain step that drops a chain that failed (self.qa_chain = None in the
\* except branch).
SearchChainDropsChain(t, fault) ==
    /\ th[t].pc = "chain"
    /\ IF qa_chain = NoneObj
       THEN \* None has no run: caught like any other failure
            /\ Return(t, [fault |-> "search"], ErrorResult)
            /\ UNCHANGED qa_chain
       ELSE LET seen == [effects |-> {"embed", "search", "generate"},
                         chain_store |-> qa_chain.retriever]
            IN  IF fault # None
                THEN /\ Return(t, [fault |-> fault] @@ seen, ErrorResult)
                     /\ qa_chain' = NoneObj
                ELSE /\ th' = [th EXCEPT ![t] =
                                 [pc |-> "similar",
                                  answer |-> chain_run(stores[qa_chain.retriever],
                                                       th[t].query, qa_chain.k)]
                                 @@ seen @@ th[t]]
                     /\ UNCHANGED qa_chain
    /\ UNCHANGED <<env_key, vector_store, stores, disk, persisted,
                   nbuilds, last_setup, main, arg, ret>>

\* search_courses line 120: self.qa_chain.run(query). The chain embeds the
\* query, searches its retriever's collection and generates; `fault` is the
\* first of these that raises, if any (caught at line 126).
SearchChain(t, fault) ==
    /\ th[t].pc = "chain"
    /\ LET used == IF fault = "search" THEN {"embed", "search"}
                   ELSE {"embed", "search", "generate"}
           seen == [effects |-> th[t].effects \cup used,
                    chain_store |-> qa_chain.retriever]
       IN  IF fault # None
           THEN Return(t, [fault |-> fault] @@ seen, ErrorResult)
           ELSE th' = [th EXCEPT ![t] =
                          [pc |-> "similar",
                           answer |-> chain_run(stores[qa_chain.retriever],
                                                th[t].query, qa_chain.k)]
                          @@ seen @@ th[t]]
    /\ UNCHANGED <<env_key, vector_store, qa_chain, stores, disk, persisted,
                   nbuilds, last_setup, main, arg, ret>>

\* search_courses with the similarity lookup after the try: its failure
\* reaches the caller.
SearchSimilarUncaught(t, fault) ==
    /\ th[t].pc = "similar"
    /\ LET seen == [effects |-> th[t].effects \cup {"embed", "search"},
                    similar_store |-> vector_store]
       IN  IF fault # None
           THEN th' = [th EXCEPT ![t] =
                          [pc |-> "idle", fault |-> fault, raised |-> fault]
                          @@ seen @@ th[t]]
           ELSE Return(t, seen,
                       SearchResult(th[t].answer,
                                    similar_courses(stores[vector_store],
                                                    th[t].query, similar_n)))
    /\ UNCHANGED <<env_key, vector_store, qa_chain, stores, disk, persisted,
                   nbuilds, last_setup, main, arg, ret>>

\* search_courses lines 121-125: similar = self.similar_courses(query, n=3)
\* and the return; `fault` is what raises inside similar_courses, if anything
\* (caught at line 126).
SearchSimilar(t, fault) ==
    /\ th[t].pc = "similar"
    /\ LET used == {"embed", "search"}
           seen == [effects |-> th[t].effects \cup used,
                    similar_store |-> vector_store]
       IN  IF fault # None
           THEN Return(t, [fault |-> fault] @@ seen, ErrorResult)
           ELSE Return(t, seen,
                       SearchResult(th[t].answer,
                                    similar_courses(stores[vector_store],
                                                    th[t].query, similar_n)))
    /\ UNCHANGED <<env_key, vector_store, qa_chain, stores, disk, persisted,
                   nbuilds, last_setup, main, arg, ret>>

\* similar_courses(course_title, n) called on its own, lines 133-148: no
\* guard, no classifier, no try.
SimilarCourses(t, course_title, n, fault) ==
    /\ th[t].pc = "idle"
    /\ LET call == [op |-> "similar_courses", query |-> course_title, n |-> n,
                    ready |-> qa_chain # NoneObj] @@ IdleThread
       IN  IF vector_store = NoStore
           THEN th' = [th EXCEPT ![t] = [raised |-> NoVectorStore] @@ call]
           ELSE IF fault # None
           THEN th' = [th EXCEPT ![t] =
                          [raised |-> fault, fault |-> fault,
                           effects |-> {"embed", "search"},
                           similar_store |-> vector_store] @@ call]
           ELSE th' = [th EXCEPT ![t] =
                          [returned |-> TRUE,
                           courses |-> similar_courses(stores[vector_store],
                                                       course_title, n),
                           effects |-> {"embed", "search"},
                           similar_store |-> vector_store] @@ call]
    /\ UNCHANGED <<env_key, vector_store, qa_chain, stores, disk, persisted,
                   nbuilds, last_setup, main, arg, ret>>

----------------------------------------------------------------------------
(* The system                                                              *)

BuildFaults == {None, "persist"}
ChainFaults == {None, "search", "generate"}
SearchFaults == {None, "search"}

\* The API of one CourseSearchSystem: the main thread builds, sets up and
\* restarts; one caller queries.
Callers == {1}

Next ==
    \/ \E d \in DocumentSets : create_vector_store(d)
    \/ \E f \in BuildFaults : persist(f)
    \/ setup_qa_chain
    \/ Restart
    \/ \E t \in Callers, q \in CallerQueries : SearchStart(t, q)
    \/ \E t \in Callers, f \in ChainFaults : SearchChain(t, f)
    \/ \E t \in Callers, f \in SearchFaults : SearchSimilar(t, f)
    \/ \E t \in Callers, q \in CallerQueries, n \in SimilarNs,
           f \in SearchFaults :
          SimilarCourses(t, q, n, f)

Spec == Init /\ [][Next]_vars

----------------------------------------------------------------------------
(* app.py after main() has built the index and set the chain up: the       *)
(* interface is launched and NumThreads request threads serve queries.     *)

\* What an earlier run of app.py, on the same data file, left in the persist
\* directory: nothing (this is the first run), or its chunks.
EarlierRuns == {<<>>, split_documents(load_course_data(FileA).value)}

InitServe ==
    /\ env_key = TRUE
    /\ \E earlier \in EarlierRuns :
          /\ stores = [NoStores EXCEPT
                         ![1] = from_documents(earlier,
                                    split_documents(load_course_data(FileA).value))]
          /\ disk = stores[1]
    /\ vector_store = 1
    /\ qa_chain = [retriever |-> 1, k |-> retriever_k]
    /\ persisted = {1}
    /\ nbuilds = 1
    /\ last_setup = [raised |-> None, built |-> {"llm", "chain"}]
    /\ main = MainIdle
    /\ th = [t \in Threads |-> IdleThread]
    /\ arg = <<>>
    /\ ret = NoneObj

NextServe ==
    \/ \E t \in Threads, q \in Queries : SearchStart(t, q)
    \/ \E t \in Threads, f \in ChainFaults : SearchChain(t, f)
    \/ \E t \in Threads, f \in SearchFaults : SearchSimilar(t, f)
    \/ \E t \in Threads, q \in Queries, n \in SimilarNs :
          SimilarCourses(t, q, n, None)

SpecServe == InitServe /\ [][NextServe]_vars

----------------------------------------------------------------------------
(* _is_course_related and load_course_data as functions of their input     *)

Pieces ==
    { <<"l","e","a","r">>, <<"n">>,
      <<"C","o","u","r">>, <<"s","e">>, <<"c","l","a","s">>, <<"s">>,
      <<"x">>,
      <<"T","U","T","O","R","I","A","L">>,
      <<"T","r","a","i","n","i","n","g">>,
      <<"e","D","u","C","a","T","i","O","n">>,
      <<"t","r","a">>, <<IDot>>, <<"n","i","n","g">> }

ClassifierInputs ==
    {Concat(ps) : ps \in UNION {[1..n -> Pieces] : n \in 0..MaxPieces}}

\* Records as a scraper may leave them: any subset of the keys present, an
\* empty curriculum, an empty description.
InputRecords ==
    {Restrict(Py, keys) : keys \in SUBSET {RecordKeys[i] : i \in 1..Len(RecordKeys)}}
        \cup {Dl, Ml}

LoaderInputs == UNION {[1..n -> InputRecords] : n \in 0..MaxRecords}

Idle ==
    /\ env_key = TRUE
    /\ vector_store = NoStore
    /\ qa_chain = NoneObj
    /\ stores = NoStores
    /\ disk = <<>>
    /\ persisted = {}
    /\ nbuilds = 0
    /\ last_setup = NoneObj
    /\ main = MainIdle
    /\ th = [t \in Threads |-> IdleThread]

Frame ==
    UNCHANGED <<env_key, vector_store, qa_chain, stores, disk, persisted,
                nbuilds, last_setup, main, th, arg>>

InitClassifier == Idle /\ arg \in ClassifierInputs /\ ret = NoneObj

Classify ==
    /\ ret = NoneObj
    /\ ret' = [returned |-> TRUE, value |-> is_course_related(arg)]
    /\ Frame

SpecClassifier == InitClassifier /\ [][Classify]_vars

InitLoader == Idle /\ arg \in LoaderInputs /\ ret = NoneObj

Load ==
    /\ ret = NoneObj
    /\ ret' = load_course_data(arg)
    /\ Frame

SpecLoader == InitLoader /\ [][Load]_vars

----------------------------------------------------------------------------
(* Properties                                                              *)

ResultKeys == {"Search Result", "Similar Courses"}

\* C1: a search_courses call entered with qa_chain set, on a query the
\* classifier rejects, has returned at once exactly the dict {"Search
\* Result": the rejection message, "Similar Courses": []} (an empty list, not
\* None), having invoked no embedding, no vector search and no generation.
C1_RejectionWithoutBackend ==
    \A t \in Threads :
        (th[t].op = "search_courses" /\ th[t].ready
            /\ ~is_course_related(th[t].query))
        => /\ th[t].pc = "idle"
           /\ th[t].returned
           /\ th[t].raised = None
           /\ DOMAIN th[t].value = ResultKeys
           /\ th[t].value["Search Result"] = "Please enter a query related to courses."
           /\ th[t].value["Similar Courses"] = <<>>
           /\ th[t].effects = {}

C1_Witness ==
    \E t \in Threads :
        /\ th[t].op = "search_courses" /\ th[t].ready
        /\ th[t].query = QLunch
        /\ th[t].returned

\* C2: a search_courses call entered with qa_chain set that has ended has
\* returned (nothing raised) a dict of the two keys; if the chain or the
\* similarity lookup raised, it is exactly the error message with the empty
\* list, never the generated answer with matches missing; and vector_store
\* and qa_chain are still set for the next query.
C2_FailureContained ==
    \A t \in Threads :
        (th[t].op = "search_courses" /\ th[t].ready /\ th[t].pc = "idle")
        => /\ th[t].raised = None
           /\ th[t].returned
           /\ DOMAIN th[t].value = ResultKeys
           /\ th[t].fault # None =>
                 /\ th[t].value["Search Result"]
                       = "An error occurred while processing your query."
                 /\ th[t].value["Similar Courses"] = <<>>
           /\ (th[t].fault = None /\ is_course_related(th[t].query)) =>
                 /\ th[t].value["Search Result"] = th[t].answer
                 /\ th[t].value["Similar Courses"]
                       = similar_courses(stores[th[t].similar_store],
                                         th[t].query, 3)
           /\ qa_chain # NoneObj
           /\ vector_store # NoStore

C2_Witness ==
    \E t \in Threads :
        /\ th[t].op = "search_courses" /\ th[t].ready /\ th[t].pc = "idle"
        /\ th[t].fault = "search"
        /\ th[t].answer # None
        /\ th[t].returned

\* C3: a search_courses call entered while qa_chain is unset, whatever its
\* query, has raised the not-initialized ValueError to its caller: it has
\* returned nothing (neither the rejection nor the error dict) and invoked
\* no backend.
C3_NotInitializedIsRaised ==
    \A t \in Threads :
        (th[t].op = "search_courses" /\ ~th[t].ready)
        => /\ th[t].pc = "idle"
           /\ th[t].raised
                = "ValueError: QA chain not initialized. Run setup_qa_chain first."
           /\ ~th[t].returned
           /\ th[t].value = NoneObj
           /\ th[t].effects = {}

C3_Witness ==
    \E t \in Threads :
        /\ th[t].op = "search_courses" /\ ~th[t].ready
        /\ ~is_course_related(th[t].query)
        /\ th[t].raised # None

\* C4: whenever create_vector_store completes on a record set, the new index
\* and the collection at the persist directory hold exactly the chunks of
\* that record set, whatever earlier builds stored there.
C4_BuildReplaces ==
    [][persist(None)
       => /\ stores'[vector_store'] = main.texts
          /\ disk' = main.texts]_vars

RequiredKeys == {"title", "description", "instructor", "price", "url"}

\* C5: the load fails exactly when some record lacks one of the five
\* required keys title, description, instructor, price, url; a record that
\* has all five, its curriculum empty or absent, never makes it fail.
C5_FailsIffRequiredMissing ==
    ret # NoneObj
    => ((ret.raised # None)
        <=> \E i \in 1..Len(arg) : ~(RequiredKeys \subseteq DOMAIN arg[i]))

\* C6: a similar_courses(text, n) call that has returned gives one record per
\* hit of the vector store's similarity search for (text, n), at most n of
\* them, in the order of the hits, each of exactly the keys title, url,
\* price, instructor with the values of the hit's metadata; it is answered
\* whether or not the classifier accepts the text, and generates nothing.
C6_SimilarIsPlainRetrieval ==
    \A t \in Threads :
        th[t].op = "similar_courses"
        => /\ "generate" \notin th[t].effects
           /\ (th[t].similar_store # NoStore /\ th[t].fault = None) => th[t].returned
           /\ th[t].returned =>
                LET hits == similarity_search(stores[th[t].similar_store],
                                              th[t].query, th[t].n)
                IN  /\ Len(th[t].courses) <= th[t].n
                    /\ Len(th[t].courses) = Len(hits)
                    /\ \A i \in 1..Len(hits) :
                          /\ DOMAIN th[t].courses[i]
                                = {"title", "url", "price", "instructor"}
                          /\ \A f \in DOMAIN th[t].courses[i] :
                                th[t].courses[i][f] = hits[i].metadata[f]

\* An out-of-domain text, searched with n = 1 in a collection of more than
\* one chunk, has its single hit returned.
C6_Witness ==
    \E t \in Threads :
        /\ th[t].op = "similar_courses"
        /\ th[t].returned
        /\ ~is_course_related(th[t].query)
        /\ th[t].n = 1
        /\ Len(stores[th[t].similar_store]) > 1
        /\ Len(th[t].courses) = 1

Keywords ==
    { <<"c","o","u","r","s","e">>, <<"l","e","a","r","n">>,
      <<"t","u","t","o","r","i","a","l">>, <<"c","l","a","s","s">>,
      <<"t","r","a","i","n","i","n","g">>,
      <<"e","d","u","c","a","t","i","o","n">> }

\* The two letter cases of a letter of a keyword.
Cases(c) == {c} \cup {UpperCase[i] : i \in {j \in 1..26 : LowerCase[j] = c}}

\* Keyword kw stands at offset i of text s in some mix of letter cases.
OccursAt(kw, s, i) ==
    /\ i + Len(kw) <= Len(s)
    /\ \A j \in 1..Len(kw) : s[i + j] \in Cases(kw[j])

\* C7: _is_course_related(query) is true exactly when one of course, learn,
\* tutorial, class, training, education is a substring of query.lower(); so
\* it is true when a keyword stands anywhere in the query in any mix of
\* letter cases, and false for the empty query.
C7_KeywordSubstring ==
    ret # NoneObj
    => /\ LET lowered == lower(arg)
          IN  ret.value
                <=> \E kw \in Keywords : \E i \in 0..Len(lowered) :
                       /\ i + Len(kw) <= Len(lowered)
                       /\ \A j \in 1..Len(kw) : lowered[i + j] = kw[j]
       /\ (\E kw \in Keywords : \E i \in 0..Len(arg) : OccursAt(kw, arg, i))
            => ret.value
       /\ (\A i \in 1..Len(arg) : arg[i] # IDot)
            => (ret.value
                => \E kw \in Keywords : \E i \in 0..Len(arg) : OccursAt(kw, arg, i))
       /\ arg = <<>> => ~ret.value

\* A keyword in mixed case that starts after other text and spans two pieces
\* of the query is found.
C7_Witness ==
    /\ ret # NoneObj
    /\ arg = <<"x", "C","o","u","r", "s","e">>
    /\ ret.value

\* C8: with the credential absent, every setup_qa_chain call has raised the
\* missing-key ValueError having built neither the backend nor the chain,
\* qa_chain is unset, and every search_courses call has raised the
\* not-initialized error without a generation call.
C8_MissingKeyFailsAtSetup ==
    ~env_key
    => /\ qa_chain = NoneObj
       /\ last_setup # NoneObj =>
            /\ last_setup.raised
                  = "ValueError: Google API key not found in environment variables"
            /\ last_setup.built = {}
       /\ \A t \in Threads :
            th[t].op = "search_courses"
            => /\ th[t].raised
                    = "ValueError: QA chain not initialized. Run setup_qa_chain first."
               /\ ~th[t].returned
               /\ "generate" \notin th[t].effects

\* Setup has failed on an index that was built, and an in-domain query has
\* been sent since.
C8_Witness ==
    /\ ~env_key
    /\ vector_store # NoStore
    /\ last_setup # NoneObj
    /\ \E t \in Threads :
          th[t].op = "search_courses" /\ is_course_related(th[t].query)

\* The result the call recorded in r gets when it runs alone against the
\* serving state as it is.
AloneCourses(r) == similar_courses(stores[vector_store], r.query, r.n)

Alone(r) ==
    IF ~is_course_related(r.query)
    THEN SearchResult("Please enter a query related to courses.", <<>>)
    ELSE IF r.fault # None
    THEN SearchResult("An error occurred while processing your query.", <<>>)
    ELSE SearchResult(chain_run(stores[qa_chain.retriever], r.query, qa_chain.k),
                      similar_courses(stores[vector_store], r.query, 3))

\* C9: every step of a search_courses or similar_courses call, whatever its
\* outcome, leaves the index contents, vector_store and qa_chain as they
\* were; and a call that returns while other calls are in flight returns
\* what it would return alone.
C9_QueriesReadOnly ==
    [][/\ UNCHANGED Serving
       /\ \A t \in Threads :
            (th'[t] # th[t] /\ th'[t].returned)
            => IF th'[t].op = "similar_courses"
               THEN th'[t].courses = AloneCourses(th'[t])
               ELSE th'[t].value = Alone(th'[t])]_vars

\* One thread has been answered while another, on a different query, is
\* between its chain and its similarity lookup.
C9_Witness ==
    \E t, u \in Threads :
        /\ t # u
        /\ th[t].op = "search_courses" /\ th[t].returned
        /\ th[t].fault = None /\ th[t].similar_store # NoStore
        /\ th[u].pc = "similar"
        /\ th[u].query # th[t].query

\* C10: every answered search_courses call drew the chain's retrieval and
\* its "Similar Courses" from one and the same index.
C10_OneIndexPerAnswer ==
    \A t \in Threads :
        (th[t].op = "search_courses" /\ th[t].returned
            /\ th[t].chain_store # NoStore /\ th[t].similar_store # NoStore)
        => th[t].chain_store = th[t].similar_store

\* C11: qa_chain is set only if vector_store is set, and its retriever is a
\* built index.  setup_qa_chain called while vector_store is unset raises and
\* leaves qa_chain unset, so no call has reached embedding, retrieval or
\* generation while no index was built: search_courses raises at its guard
\* and similar_courses raises on the missing vector store.
C11_ChainOnlyWithStore ==
    /\ qa_chain # NoneObj
       => /\ vector_store # NoStore
          /\ qa_chain.retriever # NoStore
          /\ stores[qa_chain.retriever] # <<>>
    /\ vector_store = NoStore
       => /\ qa_chain = NoneObj
          /\ last_setup # NoneObj
             => /\ last_setup.raised
                     \in {"ValueError: Google API key not found in environment variables",
                          "AttributeError: 'NoneType' object has no attribute"}
                /\ "chain" \notin last_setup.built
          /\ \A t \in Threads :
                /\ th[t].pc = "idle"
                /\ th[t].effects = {}
                /\ th[t].chain_store = NoStore
                /\ th[t].similar_store = NoStore
                /\ ~th[t].returned
                /\ th[t].op = "search_courses"
                   => th[t].raised
                        = "ValueError: QA chain not initialized. Run setup_qa_chain first."
                /\ th[t].op = "similar_courses"
                   => th[t].raised
                        = "AttributeError: 'NoneType' object has no attribute"
    /\ \A t \in Threads :
          th[t].effects # {}
          => \/ th[t].chain_store # NoStore /\ stores[th[t].chain_store] # <<>>
             \/ th[t].similar_store # NoStore /\ stores[th[t].similar_store] # <<>>

\* With the credential present, setup_qa_chain has been called before any
\* create_vector_store and has raised on the missing vector store; a query
\* with a course keyword has been sent since.
C11_Witness ==
    /\ env_key
    /\ vector_store = NoStore
    /\ qa_chain = NoneObj
    /\ last_setup # NoneObj
    /\ last_setup.raised = "AttributeError: 'NoneType' object has no attribute"
    /\ last_setup.built = {"llm"}
    /\ \E t \in Threads :
          th[t].op = "search_courses" /\ is_course_related(th[t].query)

====
